---- MODULE Spec2Model ----
(***************************************************************************)
(* A model of advanced-vector/vector.h: RawMemory<T> (an owning block of   *)
(* raw slots) and Vector<T> (a growable sequence built on it).             *)
(*                                                                         *)
(* The heap maps block addresses to blocks; a block is a sequence of       *)
(* slots, each slot raw (not constructed) or holding an element value.    *)
(* Two Vector objects, "a" and "b", are operated on by a single-threaded   *)
(* caller; "t" is the local Vector rhs_copy of the copy assignment.  Every *)
(* member function is one action that runs the whole function body,       *)
(* including exception unwinding; the outcome of the call is kept in       *)
(* `last` until the caller takes it (Return).                              *)
(*                                                                         *)
(* Element operations of T that may throw are counted while a member      *)
(* function runs; the input f of an action names the one that throws       *)
(* (0: none).  The in-place shifting paths (Erase and                      *)
(* EmplaceEnoughtCapacity) are modelled for normal completion only.        *)
(***************************************************************************)
EXTENDS Integers, Sequences, FiniteSets, TLC

\* Bound of the model: the total capacity the containers hold at an
\* operation boundary.
MaxCells == 4

\* The container never inspects an element value: two distinguishable values
\* (0 is also the value-initialised T) tell every placement from every other.
Values == {0, 1}
BlockIds == {1, 2, 3, 4}
Names == {"a", "b"}

\* A slot of raw memory in which no element is constructed.
RAW == -1
\* The unspecified value of an element that has been moved from.
MF == -2

VARIABLES T, heap, vec, alive, last

vars == <<T, heap, vec, alive, last>>

\* RawMemory() = default; Vector() = default
EmptyRawMemory == [buffer_ |-> 0, capacity_ |-> 0]
EmptyVector == [data_ |-> EmptyRawMemory, size_ |-> 0]

NoCall == [op |-> "none"]

-----------------------------------------------------------------------------
(* The machine state a member function runs on: heap and objects, the      *)
(* count n of throwing-capable element operations attempted so far, the    *)
(* injected failure point f (-1: the allocation fails), whether an         *)
(* exception is propagating and what threw it, the returned position, ev:  *)
(* the memory-safety events that occurred, and log: the constructions,     *)
(* assignments and destructions of slots, in the order they happened.      *)

Start(f) ==
    [heap |-> heap, vec |-> vec, n |-> 0, f |-> f, thrown |-> FALSE,
     ret |-> <<0, 0>>, ev |-> {}, what |-> "none", log |-> <<>>]

Slot(m, b, i) == m.heap[b][i + 1]

Mark(m, e) == [m EXCEPT !.ev = @ \cup {e}]

\* The operation of kind k on slot i of block b took place.
Log(m, k, b, i) == [m EXCEPT !.log = Append(@, <<k, b, i>>)]

\* The exception now propagating was thrown by an operation of kind k.
Threw(m, k) == [m EXCEPT !.what = k]

\* An element operation that throws when it is the injected failure point.
Attempt(m, canThrow) ==
    IF canThrow
    THEN [m EXCEPT !.n = @ + 1, !.thrown = (m.n + 1 = m.f)]
    ELSE m

\* Placement of a value into slot i of block b.
Place(m, b, i, v) ==
    LET m1 == IF Slot(m, b, i) # RAW THEN Mark(m, "construct_over_live") ELSE m
        m2 == IF v = RAW THEN Mark(m1, "read_raw") ELSE m1
    IN  [m2 EXCEPT !.heap[b][i + 1] = v]

\* The value the arguments of an emplace designate: a value, or a reference
\* to element j of the container itself, read when the element is built.
ArgValue(m, c, arg) ==
    IF arg.kind = "val" THEN arg.v
    ELSE Slot(m, m.vec[c].data_.buffer_, arg.j)

\* new (b + i) T(std::forward<Args>(args)...)
ConstructArgAt(m, b, i, c, arg) ==
    LET m1 == Attempt(m, TRUE)
    IN  IF m1.thrown THEN Threw(m1, "arg")
        ELSE Log(Place(m1, b, i, ArgValue(m1, c, arg)), "arg", b, i)

\* new (dst + j) T(src[i])
CopyConstructAt(m, dst, j, src, i) ==
    LET m1 == Attempt(m, TRUE)
    IN  IF m1.thrown THEN Threw(m1, "copy")
        ELSE Log(Place(m1, dst, j, Slot(m1, src, i)), "copy", dst, j)

\* new (dst + j) T(std::move(src[i]))
MoveConstructAt(m, dst, j, src, i) ==
    LET m1 == Attempt(m, ~T.nothrowMove)
    IN  IF m1.thrown THEN Threw(m1, "move")
        ELSE Log([Place(m1, dst, j, Slot(m1, src, i)) EXCEPT !.heap[src][i + 1] = MF],
                 "move", dst, j)

\* new (b + i) T()
ValueConstructAt(m, b, i) ==
    LET m1 == Attempt(m, TRUE)
    IN  IF m1.thrown THEN Threw(m1, "value")
        ELSE Log(Place(m1, b, i, 0), "value", b, i)

\* dst[j] = src[i]
CopyAssignAt(m, dst, j, src, i) ==
    LET m1 == Attempt(m, TRUE)
        m2 == IF Slot(m1, dst, j) = RAW THEN Mark(m1, "assign_to_raw") ELSE m1
        m3 == IF Slot(m1, src, i) = RAW THEN Mark(m2, "read_raw") ELSE m2
    IN  IF m1.thrown THEN Threw(m1, "assign")
        ELSE Log([m3 EXCEPT !.heap[dst][j + 1] = Slot(m1, src, i)], "assign", dst, j)

\* b[j] = std::move(b[i])
MoveAssignAt(m, b, j, i) ==
    LET m2 == IF Slot(m, b, j) = RAW THEN Mark(m, "assign_to_raw") ELSE m
        m3 == IF Slot(m, b, i) = RAW THEN Mark(m2, "read_raw") ELSE m2
    IN  [m3 EXCEPT !.heap[b] = [@ EXCEPT ![j + 1] = Slot(m, b, i), ![i + 1] = MF]]

\* b[j] = T(args): the temporary is built, move-assigned from and destroyed.
AssignTempAt(m, b, j, v) ==
    LET m2 == IF Slot(m, b, j) = RAW THEN Mark(m, "assign_to_raw") ELSE m
        m3 == IF v = RAW THEN Mark(m2, "read_raw") ELSE m2
    IN  [m3 EXCEPT !.heap[b][j + 1] = v]

\* n slots of raw memory.
RECURSIVE RawSlots(_)
RawSlots(n) == IF n = 0 THEN <<>> ELSE Append(RawSlots(n - 1), RAW)

\* p->~T() for the n slots from i on
DestroyN(m, b, i, n) ==
    IF n = 0 THEN m
    ELSE LET hit == {k \in i .. (i + n - 1) : Slot(m, b, k) = RAW}
             m1 == IF hit # {} THEN Mark(m, "destroy_raw") ELSE m
         IN  [m1 EXCEPT !.heap[b] =
                     SubSeq(@, 1, i) \o RawSlots(n) \o SubSeq(@, i + n + 1, Len(@)),
                 !.log = @ \o [k \in 1 .. n |-> <<"destroy", b, i + k - 1>>]]

\* std::destroy_at
DestroyAt(m, b, i) == DestroyN(m, b, i, 1)

\* The address operator new returns: a block that is not in use.
NewBlock(h) ==
    CHOOSE b \in BlockIds : h[b] = <<>> /\ \A x \in BlockIds : x < b => h[x] # <<>>

\* RawMemory::Allocate: operator new throws when the allocation fails.
Allocate(m, b, n) ==
    IF n = 0 THEN m
    ELSE IF m.f = -1 THEN Threw([m EXCEPT !.thrown = TRUE], "alloc")
    ELSE [m EXCEPT !.heap[b] = RawSlots(n)]

\* RawMemory(size_t capacity)
RawMemory(m, capacity) ==
    [buffer_ |-> IF capacity = 0 THEN 0 ELSE NewBlock(m.heap), capacity_ |-> capacity]

\* RawMemory::Deallocate, by ~RawMemory: the block goes whatever it holds.
Deallocate(m, b) ==
    IF b = 0 THEN m
    ELSE LET m1 == IF \E k \in 1 .. Len(m.heap[b]) : m.heap[b][k] # RAW
                   THEN Mark(m, "released_live") ELSE m
         IN  [m1 EXCEPT !.heap[b] = <<>>]

-----------------------------------------------------------------------------
(* The <memory> algorithms the container uses.  Each builds its range in   *)
(* order and, when an element operation throws, destroys what it has built *)
(* and lets the exception through.                                         *)

RECURSIVE UninitCopyFrom(_, _, _, _, _, _, _)
UninitCopyFrom(m, src, si, n, dst, di, k) ==
    IF k = n THEN m
    ELSE LET m1 == CopyConstructAt(m, dst, di + k, src, si + k)
         IN  IF m1.thrown THEN DestroyN(m1, dst, di, k)
             ELSE UninitCopyFrom(m1, src, si, n, dst, di, k + 1)

\* std::uninitialized_copy_n(src + si, n, dst + di)
UninitializedCopyN(m, src, si, n, dst, di) == UninitCopyFrom(m, src, si, n, dst, di, 0)

RECURSIVE UninitMoveFrom(_, _, _, _, _, _, _)
UninitMoveFrom(m, src, si, n, dst, di, k) ==
    IF k = n THEN m
    ELSE LET m1 == MoveConstructAt(m, dst, di + k, src, si + k)
         IN  IF m1.thrown THEN DestroyN(m1, dst, di, k)
             ELSE UninitMoveFrom(m1, src, si, n, dst, di, k + 1)

UninitializedMoveNThenDestroy(m, src, si, n, dst, di) ==
    LET m1 == UninitMoveFrom(m, src, si, n, dst, di, 0)
    IN  IF m1.thrown THEN m1 ELSE DestroyN(m1, src, si, n)

\* std::uninitialized_move_n(src + si, n, dst + di)
UninitializedMoveN(m, src, si, n, dst, di) == UninitMoveFrom(m, src, si, n, dst, di, 0)

RECURSIVE UninitValueFrom(_, _, _, _, _)
UninitValueFrom(m, b, i, n, k) ==
    IF k = n THEN m
    ELSE LET m1 == ValueConstructAt(m, b, i + k)
         IN  IF m1.thrown THEN DestroyN(m1, b, i, k)
             ELSE UninitValueFrom(m1, b, i, n, k + 1)

\* std::uninitialized_value_construct_n(b + i, n)
UninitializedValueConstructN(m, b, i, n) == UninitValueFrom(m, b, i, n, 0)

RECURSIVE MoveRangeBackToFront(_, _, _, _, _)
MoveRangeBackToFront(m, b, first, lastx, d) ==
    IF first >= lastx THEN m
    ELSE MoveRangeBackToFront(
             MoveAssignAt(m, b, d + (lastx - 1 - first), lastx - 1),
             b, first, lastx - 1, d)

\* std::move(b + first, b + lastx, b + d): front to back
RECURSIVE MoveRange(_, _, _, _, _)
MoveRange(m, b, first, lastx, d) ==
    IF first >= lastx THEN m
    ELSE MoveRange(MoveAssignAt(m, b, d, first), b, first + 1, lastx, d + 1)

RECURSIVE MoveFrontToBack(_, _, _, _, _)
MoveFrontToBack(m, b, first, lastx, dend) ==
    IF first >= lastx THEN m
    ELSE MoveFrontToBack(
             MoveAssignAt(m, b, dend - (lastx - first), first),
             b, first + 1, lastx, dend)

\* std::move_backward(b + first, b + lastx, b + dend): back to front
RECURSIVE MoveBackward(_, _, _, _, _)
MoveBackward(m, b, first, lastx, dend) ==
    IF first >= lastx THEN m
    ELSE MoveBackward(MoveAssignAt(m, b, dend - 1, lastx - 1), b, first, lastx - 1, dend - 1)

AlwaysMove == TRUE

\* if constexpr (is_nothrow_move_constructible_v<T> || !is_copy_constructible_v<T>)
RelocateByMove == T.nothrowMove \/ ~T.copyable

RelocateAllButLast(m, src, si, n, dst, di) ==
    IF n = 0 THEN m
    ELSE IF RelocateByMove THEN UninitializedMoveN(m, src, si, n - 1, dst, di)
    ELSE UninitializedCopyN(m, src, si, n - 1, dst, di)

\* The move-or-copy selection of Reserve, EmplaceBack and EmplaceNoCapacity.
Relocate(m, src, si, n, dst, di) ==
    IF RelocateByMove THEN UninitializedMoveN(m, src, si, n, dst, di)
    ELSE UninitializedCopyN(m, src, si, n, dst, di)

-----------------------------------------------------------------------------
(* Vector<T> *)

Size(m, c) == m.vec[c].size_
Capacity(m, c) == m.vec[c].data_.capacity_
Data(m, c) == m.vec[c].data_.buffer_

\* RawMemory::Swap, on the data_ of c and a local RawMemory; the local's new
\* contents are returned by the caller reading the old data_.
SwapData(m, c, rm) == [m EXCEPT !.vec[c].data_ = rm]

SwapOneWay(m, c, d) == [m EXCEPT !.vec[c] = m.vec[d]]

\* Vector::Swap
Swap(m, c, d) ==
    [m EXCEPT !.vec = [@ EXCEPT ![c] = m.vec[d], ![d] = m.vec[c]]]

ReserveEvenIfEqual(m, c, new_capacity) ==
    IF new_capacity < Capacity(m, c) THEN m
    ELSE LET new_data == RawMemory(m, new_capacity)
             old == m.vec[c].data_
             m1 == Allocate(m, new_data.buffer_, new_capacity)
             m2 == Relocate(m1, old.buffer_, 0, Size(m, c), new_data.buffer_, 0)
         IN  IF m1.thrown THEN m1
             ELSE IF m2.thrown THEN Deallocate(m2, new_data.buffer_)
             ELSE LET m3 == DestroyN(m2, old.buffer_, 0, Size(m, c))
                      m4 == SwapData(m3, c, new_data)
                  IN  Deallocate(m4, old.buffer_)

\* Vector::Reserve
Reserve(m, c, new_capacity) ==
    IF new_capacity <= Capacity(m, c) THEN m
    ELSE LET new_data == RawMemory(m, new_capacity)
             old == m.vec[c].data_
             m1 == Allocate(m, new_data.buffer_, new_capacity)
             m2 == Relocate(m1, old.buffer_, 0, Size(m, c), new_data.buffer_, 0)
         IN  IF m1.thrown THEN m1
             ELSE IF m2.thrown THEN Deallocate(m2, new_data.buffer_)
             ELSE LET m3 == DestroyN(m2, old.buffer_, 0, Size(m, c))
                      m4 == SwapData(m3, c, new_data)
                  IN  Deallocate(m4, old.buffer_)

GrowByOne(m, c) == Size(m, c) + 1

\* The capacity a full container grows to.
GrowTo(m, c) == IF Capacity(m, c) = 0 THEN 1 ELSE Size(m, c) * 2

EmplaceBackCountFirst(m, c, arg) ==
    IF Size(m, c) = Capacity(m, c)
    THEN LET new_data == RawMemory(m, GrowTo(m, c))
             old == m.vec[c].data_
             m1 == Allocate(m, new_data.buffer_, new_data.capacity_)
             m2 == ConstructArgAt(m1, new_data.buffer_, Size(m, c), c, arg)
             m3 == IF m2.thrown THEN m2
                   ELSE Relocate(m2, old.buffer_, 0, Size(m, c), new_data.buffer_, 0)
         IN  IF m1.thrown THEN [m1 EXCEPT !.vec[c].size_ = @ + 1]
             ELSE IF m3.thrown THEN Deallocate(m3, new_data.buffer_)
             ELSE LET m4 == DestroyN(m3, old.buffer_, 0, Size(m, c))
                      m5 == SwapData(m4, c, new_data)
                      m6 == Deallocate(m5, old.buffer_)
                  IN  [m6 EXCEPT !.vec[c].size_ = @ + 1,
                                 !.ret = <<new_data.buffer_, Size(m, c)>>]
    ELSE LET m1 == ConstructArgAt(m, Data(m, c), Size(m, c), c, arg)
         IN  IF m1.thrown THEN m1
             ELSE [m1 EXCEPT !.vec[c].size_ = @ + 1,
                             !.ret = <<Data(m, c), Size(m, c)>>]

\* Vector::EmplaceBack
EmplaceBack(m, c, arg) ==
    IF Size(m, c) = Capacity(m, c)
    THEN LET new_data == RawMemory(m, GrowTo(m, c))
             old == m.vec[c].data_
             m1 == Allocate(m, new_data.buffer_, new_data.capacity_)
             m2 == ConstructArgAt(m1, new_data.buffer_, Size(m, c), c, arg)
             m3 == IF m2.thrown THEN m2
                   ELSE Relocate(m2, old.buffer_, 0, Size(m, c), new_data.buffer_, 0)
         IN  IF m1.thrown THEN m1
             ELSE IF m3.thrown THEN Deallocate(m3, new_data.buffer_)
             ELSE LET m4 == DestroyN(m3, old.buffer_, 0, Size(m, c))
                      m5 == SwapData(m4, c, new_data)
                      m6 == Deallocate(m5, old.buffer_)
                  IN  [m6 EXCEPT !.vec[c].size_ = @ + 1,
                                 !.ret = <<new_data.buffer_, Size(m, c)>>]
    ELSE LET m1 == ConstructArgAt(m, Data(m, c), Size(m, c), c, arg)
         IN  IF m1.thrown THEN m1
             ELSE [m1 EXCEPT !.vec[c].size_ = @ + 1,
                             !.ret = <<Data(m, c), Size(m, c)>>]

\* Vector::PushBack
PushBack(m, c, arg) == [EmplaceBack(m, c, arg) EXCEPT !.ret = <<0, 0>>]


PopBackNoDestroy(m, c) == [m EXCEPT !.vec[c].size_ = @ - 1]

\* Vector::PopBack
PopBack(m, c) ==
    [DestroyAt(m, Data(m, c), Size(m, c) - 1) EXCEPT !.vec[c].size_ = @ - 1]

\* Vector::EmplaceEnoughtCapacity
EmplaceEnoughtCapacity(m, c, index, arg) ==
    LET data == Data(m, c)
        size == Size(m, c)
        m1 == MoveConstructAt(m, data, size, data, size - 1)
        m2 == MoveBackward(m1, data, index, size - 1, size)
        m3 == AssignTempAt(m2, data, index, ArgValue(m2, c, arg))
    IN  [m3 EXCEPT !.vec[c].size_ = @ + 1, !.ret = <<data, index>>]

EmplaceNoCapacityRelocateFirst(m, c, index, arg) ==
    LET new_data == RawMemory(m, GrowTo(m, c))
        old == m.vec[c].data_
        size == Size(m, c)
        m1 == Allocate(m, new_data.buffer_, new_data.capacity_)
        m2 == Relocate(m1, old.buffer_, 0, index, new_data.buffer_, 0)
        m3 == IF m2.thrown THEN m2
              ELSE Relocate(m2, old.buffer_, index, size - index,
                            new_data.buffer_, index + 1)
        m4 == IF m3.thrown THEN m3
              ELSE ConstructArgAt(m3, new_data.buffer_, index, c, arg)
    IN  IF m1.thrown THEN m1
        ELSE IF m4.thrown THEN Deallocate(m4, new_data.buffer_)
        ELSE LET m5 == DestroyN(m4, old.buffer_, 0, size)
                 m6 == SwapData(m5, c, new_data)
                 m7 == Deallocate(m6, old.buffer_)
             IN  [m7 EXCEPT !.vec[c].size_ = @ + 1,
                            !.ret = <<new_data.buffer_, index>>]

\* Vector::EmplaceNoCapacity
EmplaceNoCapacity(m, c, index, arg) ==
    LET new_data == RawMemory(m, GrowTo(m, c))
        old == m.vec[c].data_
        size == Size(m, c)
        m1 == Allocate(m, new_data.buffer_, new_data.capacity_)
        m2 == ConstructArgAt(m1, new_data.buffer_, index, c, arg)
        m3 == IF m2.thrown THEN m2
              ELSE Relocate(m2, old.buffer_, 0, index, new_data.buffer_, 0)
        m4 == IF m3.thrown THEN m3
              ELSE Relocate(m3, old.buffer_, index, size - index,
                            new_data.buffer_, index + 1)
    IN  IF m1.thrown THEN m1
        ELSE IF m4.thrown THEN Deallocate(m4, new_data.buffer_)
        ELSE LET m5 == DestroyN(m4, old.buffer_, 0, size)
                 m6 == SwapData(m5, c, new_data)
                 m7 == Deallocate(m6, old.buffer_)
             IN  [m7 EXCEPT !.vec[c].size_ = @ + 1,
                            !.ret = <<new_data.buffer_, index>>]

EmplaceAlwaysBack(m, c, index, arg) ==
    LET m1 == EmplaceBack(m, c, arg)
    IN  IF m1.thrown THEN m1
        ELSE [m1 EXCEPT !.ret = <<Data(m1, c), Size(m1, c) - 1>>]

\* Vector::Emplace; the position is begin() + index
Emplace(m, c, index, arg) ==
    IF index = Size(m, c)
    THEN LET m1 == EmplaceBack(m, c, arg)
         IN  IF m1.thrown THEN m1
             ELSE [m1 EXCEPT !.ret = <<Data(m1, c), Size(m1, c) - 1>>]
    ELSE IF Size(m, c) < Capacity(m, c)
         THEN EmplaceEnoughtCapacity(m, c, index, arg)
         ELSE EmplaceNoCapacity(m, c, index, arg)

\* Vector::Insert
Insert(m, c, index, arg) == Emplace(m, c, index, arg)

EraseLast(m, c, index) == PopBack(m, c)

\* Vector::Erase; the position is begin() + distance
Erase(m, c, distance) ==
    LET data == Data(m, c)
        size == Size(m, c)
        m1 == MoveRange(m, data, distance + 1, size, distance)
        m2 == DestroyAt(m1, data, size - 1)
    IN  [m2 EXCEPT !.vec[c].size_ = @ - 1, !.ret = <<data, distance>>]

ResizeKeepTail(m, c, new_size) ==
    LET m1 == Reserve(m, c, new_size)
        size == Size(m, c)
        m2 == IF ~m1.thrown /\ size < new_size
              THEN UninitializedValueConstructN(m1, Data(m1, c), size, new_size - size)
              ELSE m1
    IN  IF m2.thrown THEN m2 ELSE [m2 EXCEPT !.vec[c].size_ = new_size]

\* Vector::Resize
Resize(m, c, new_size) ==
    LET m1 == Reserve(m, c, new_size)
        size == Size(m, c)
        m2 == IF ~m1.thrown /\ size < new_size
              THEN UninitializedValueConstructN(m1, Data(m1, c), size, new_size - size)
              ELSE m1
        m3 == IF ~m2.thrown /\ size > new_size
              THEN DestroyN(m2, Data(m2, c), new_size, size - new_size)
              ELSE m2
    IN  IF m3.thrown THEN m3 ELSE [m3 EXCEPT !.vec[c].size_ = new_size]

\* Vector::~Vector, then ~RawMemory of data_
Destructor(m, c) ==
    LET m1 == DestroyN(m, Data(m, c), 0, Size(m, c))
        m2 == Deallocate(m1, Data(m, c))
    IN  [m2 EXCEPT !.vec[c] = EmptyVector]

\* Vector::Vector(size_t size)
SizedConstructor(m, c, size) ==
    LET data == RawMemory(m, size)
        m1 == Allocate(m, data.buffer_, size)
        m2 == UninitializedValueConstructN(m1, data.buffer_, 0, size)
    IN  IF m1.thrown THEN m1
        ELSE IF m2.thrown THEN Deallocate(m2, data.buffer_)
        ELSE [m2 EXCEPT !.vec[c] = [data_ |-> data, size_ |-> size]]

ShallowCopy(m, c, other) == [m EXCEPT !.vec[c] = m.vec[other]]

\* Vector::Vector(const Vector& other)
CopyConstructor(m, c, other) ==
    LET data == RawMemory(m, Size(m, other))
        m1 == Allocate(m, data.buffer_, data.capacity_)
        m2 == UninitializedCopyN(m1, Data(m, other), 0, Size(m, other), data.buffer_, 0)
    IN  IF m1.thrown THEN m1
        ELSE IF m2.thrown THEN Deallocate(m2, data.buffer_)
        ELSE [m2 EXCEPT !.vec[c] = [data_ |-> data, size_ |-> Size(m, other)]]

\* Vector::Vector(Vector&& other)
MoveConstructor(m, c, other) == Swap([m EXCEPT !.vec[c] = EmptyVector], c, other)

Min(x, y) == IF x <= y THEN x ELSE y

\* for (i = 0; i < min(rhs.size_, size_); ++i) data_[i] = rhs.data_[i]
RECURSIVE AssignPrefix(_, _, _, _, _)
AssignPrefix(m, dst, src, n, k) ==
    IF k = n \/ m.thrown THEN m
    ELSE AssignPrefix(CopyAssignAt(m, dst, k, src, k), dst, src, n, k + 1)

CopyAssignBySwap(m, c, rhs) ==
    IF c = rhs THEN m
    ELSE LET m1 == CopyConstructor(m, "t", rhs)
         IN  IF m1.thrown THEN m1
             ELSE Destructor(Swap(m1, c, "t"), "t")

\* Vector::operator=(const Vector& rhs)
CopyAssign(m, c, rhs) ==
    IF c = rhs THEN m
    ELSE IF Size(m, rhs) > Capacity(m, c)
    THEN LET m1 == CopyConstructor(m, "t", rhs)
         IN  IF m1.thrown THEN m1
             ELSE Destructor(Swap(m1, c, "t"), "t")
    ELSE LET size == Size(m, c)
             rsize == Size(m, rhs)
             m1 == AssignPrefix(m, Data(m, c), Data(m, rhs), Min(rsize, size), 0)
             m2 == IF m1.thrown THEN m1
                   ELSE IF rsize < size
                   THEN DestroyN(m1, Data(m, c), rsize, size - rsize)
                   ELSE UninitializedCopyN(m1, Data(m, rhs), size, rsize - size,
                                           Data(m, c), size)
         IN  IF m2.thrown THEN m2 ELSE [m2 EXCEPT !.vec[c].size_ = rsize]

\* Vector::operator=(Vector&& rhs)
MoveAssign(m, c, rhs) == IF c = rhs THEN m ELSE Swap(m, c, rhs)

\* v[index] = value, through Vector::operator[]
WriteAt(m, c, index, v) == AssignTempAt(m, Data(m, c), index, v)

-----------------------------------------------------------------------------
(* The caller. *)

Val(v) == [kind |-> "val", v |-> v]

TotalCapacity(v) == v["a"].data_.capacity_ + v["b"].data_.capacity_

\* No call is in progress: the caller may make one.
Idle == last.op = "none"

\* The call of a member function: the function runs to its end (normal or
\* by exception) and its outcome is recorded for the caller.
Outcome(op, c, d, i, v, m) ==
    /\ m.f = 0 \/ m.thrown
    /\ heap' = m.heap
    /\ vec' = m.vec
    /\ last' = [op |-> op, c |-> c, d |-> d, i |-> i, v |-> v, f |-> m.f,
                outcome |-> IF m.thrown THEN "threw" ELSE "ok",
                ret |-> m.ret, ev |-> m.ev, what |-> m.what, log |-> m.log,
                pre |-> [heap |-> heap, vec |-> vec, alive |-> alive]]
    /\ UNCHANGED T

\* A call made within the storage the model explores.
Call(op, c, d, i, v, m) ==
    /\ TotalCapacity(m.vec) <= MaxCells
    /\ Outcome(op, c, d, i, v, m)

DoPushBack ==
    /\ Idle
    /\ \E c \in alive, v \in Values : \E f \in -1 .. (vec[c].size_ + 1) :
          Call("PushBack", c, c, 0, v, PushBack(Start(f), c, Val(v)))
    /\ UNCHANGED alive

DoReserve ==
    /\ Idle
    /\ \E c \in alive, n \in 0 .. MaxCells : \E f \in -1 .. vec[c].size_ :
          Call("Reserve", c, c, n, 0, Reserve(Start(f), c, n))
    /\ UNCHANGED alive

DoPopBack ==
    /\ Idle
    /\ \E c \in alive :
          /\ vec[c].size_ > 0
          /\ Call("PopBack", c, c, 0, 0, PopBack(Start(0), c))
    /\ UNCHANGED alive

\* The in-place path with index < size is run for normal completion only.
DoInsert ==
    /\ Idle
    /\ \E c \in alive, v \in Values : \E index \in 0 .. vec[c].size_ :
          \E f \in -1 .. (vec[c].size_ + 1) :
             /\ (index < vec[c].size_ /\ vec[c].size_ < vec[c].data_.capacity_) => f = 0
             /\ Call("Insert", c, c, index, v, Insert(Start(f), c, index, Val(v)))
    /\ UNCHANGED alive

DoErase ==
    /\ Idle
    /\ \E c \in alive : \E index \in 0 .. (vec[c].size_ - 1) :
          Call("Erase", c, c, index, 0, Erase(Start(0), c, index))
    /\ UNCHANGED alive

DoResize ==
    /\ Idle
    /\ \E c \in alive, n \in 0 .. MaxCells : \E f \in -1 .. (vec[c].size_ + n) :
          Call("Resize", c, c, n, 0, Resize(Start(f), c, n))
    /\ UNCHANGED alive

\* The caller inserts at a position and erases at the same position.
DoInsertErase ==
    /\ Idle
    /\ \E c \in alive, v \in Values : \E index \in 0 .. vec[c].size_ :
          Call("Insert;Erase", c, c, index, v,
               Erase(Insert(Start(0), c, index, Val(v)), c, index))
    /\ UNCHANGED alive

DoWrite ==
    /\ Idle
    /\ \E c \in alive, v \in Values : \E index \in 0 .. (vec[c].size_ - 1) :
          Call("Write", c, c, index, v, WriteAt(Start(0), c, index, v))
    /\ UNCHANGED alive

DoSwap ==
    /\ Idle
    /\ \E c \in alive, d \in alive :
          /\ c # d
          /\ Call("Swap", c, d, 0, 0, Swap(Start(0), c, d))
    /\ UNCHANGED alive

DoCopyAssign ==
    /\ Idle
    /\ T.copyable
    /\ \E c \in alive, d \in alive : \E f \in -1 .. vec[d].size_ :
          Call("CopyAssign", c, d, 0, 0, CopyAssign(Start(f), c, d))
    /\ UNCHANGED alive

DoMoveAssign ==
    /\ Idle
    /\ \E c \in alive, d \in alive :
          Call("MoveAssign", c, d, 0, 0, MoveAssign(Start(0), c, d))
    /\ UNCHANGED alive

\* A constructor brings the object to life unless it throws.
Construct(op, c, d, n, m) ==
    /\ Call(op, c, d, n, 0, m)
    /\ alive' = IF m.thrown THEN alive ELSE alive \cup {c}

DoDefaultConstruct ==
    /\ Idle
    /\ \E c \in Names \ alive :
          Construct("Vector()", c, c, 0, [Start(0) EXCEPT !.vec[c] = EmptyVector])

DoSizedConstruct ==
    /\ Idle
    /\ \E c \in Names \ alive, n \in 0 .. MaxCells : \E f \in -1 .. n :
          Construct("Vector(size)", c, c, n, SizedConstructor(Start(f), c, n))

DoCopyConstruct ==
    /\ Idle
    /\ T.copyable
    /\ \E c \in Names \ alive, d \in alive : \E f \in -1 .. vec[d].size_ :
          Construct("Vector(const Vector&)", c, d, 0, CopyConstructor(Start(f), c, d))

DoMoveConstruct ==
    /\ Idle
    /\ \E c \in Names \ alive, d \in alive :
          Construct("Vector(Vector&&)", c, d, 0, MoveConstructor(Start(0), c, d))

\* The object b goes out of scope.
DoDestroy ==
    /\ Idle
    /\ "b" \in alive
    /\ Call("~Vector", "b", "b", 0, 0, Destructor(Start(0), "b"))
    /\ alive' = alive \ {"b"}

\* Block addresses carry no meaning beyond identity: at the operation
\* boundary the blocks are renumbered by owner (a's block 1, b's block 2).
Renumber(h, v) ==
    LET ba == v["a"].data_.buffer_
        bb == v["b"].data_.buffer_
        na == IF ba = 0 THEN 0 ELSE 1
        nb == IF bb = 0 THEN 0 ELSE IF bb = ba THEN 1 ELSE 2
    IN  [heap |-> [x \in BlockIds |->
                      IF x = 1 /\ ba # 0 THEN h[ba]
                      ELSE IF x = 2 /\ nb = 2 THEN h[bb]
                      ELSE <<>>],
         vec |-> [v EXCEPT !["a"].data_.buffer_ = na, !["b"].data_.buffer_ = nb]]

\* The call returns to the caller, which takes its result.
Return ==
    /\ ~Idle
    /\ last' = NoCall
    /\ heap' = Renumber(heap, vec).heap
    /\ vec' = Renumber(heap, vec).vec
    /\ UNCHANGED <<T, alive>>

\* The capabilities of the element type T that the container asks about.
ElementTypes == [nothrowMove : BOOLEAN, copyable : BOOLEAN]

Init ==
    /\ T \in ElementTypes
    /\ heap = [x \in BlockIds |-> <<>>]
    /\ vec = [c \in Names \cup {"t"} |-> EmptyVector]
    /\ alive = {"a"}
    /\ last = NoCall

Next ==
    \/ DoPushBack
    \/ DoReserve
    \/ DoPopBack
    \/ DoInsert
    \/ DoErase
    \/ DoInsertErase
    \/ DoResize
    \/ DoWrite
    \/ DoSwap
    \/ DoCopyAssign
    \/ DoMoveAssign
    \/ DoDefaultConstruct
    \/ DoSizedConstruct
    \/ DoCopyConstruct
    \/ DoMoveConstruct
    \/ DoDestroy
    \/ Return

Spec == Init /\ [][Next]_vars

-----------------------------------------------------------------------------
(* What the caller observes. *)

\* The element sequence of a Vector: the slots begin() .. end().
Elems(h, v) ==
    IF v.data_.buffer_ = 0 THEN <<>> ELSE SubSeq(h[v.data_.buffer_], 1, v.size_)

Now(c) == Elems(heap, vec[c])
Before(c) == Elems(last.pre.heap, last.pre.vec[c])
SizeNow(c) == vec[c].size_
SizeBefore(c) == last.pre.vec[c].size_
CapacityNow(c) == vec[c].data_.capacity_
CapacityBefore(c) == last.pre.vec[c].data_.capacity_

Returned(op) == ~Idle /\ last.op = op /\ last.outcome = "ok"
Failed == ~Idle /\ last.outcome = "threw"

\* Size, capacity and every element value of c are as before the call.
Unchanged(c) ==
    /\ SizeNow(c) = SizeBefore(c)
    /\ CapacityNow(c) = CapacityBefore(c)
    /\ Now(c) = Before(c)

\* The failed call is one that had to relocate into new storage.
RelocatingCall ==
    \/ last.op = "Reserve" /\ last.i > CapacityBefore(last.c)
    \/ last.op \in {"PushBack", "Insert"} /\ SizeBefore(last.c) = CapacityBefore(last.c)
    \/ last.op = "CopyAssign" /\ SizeBefore(last.d) > CapacityBefore(last.c)

\* C1 as stated: whatever the element type, a failure injected into a
\* relocating Reserve, PushBack, Insert or copy assignment leaves size,
\* capacity and every element value as before the call.
C1_StrongGuaranteeAnyType ==
    (Failed /\ RelocatingCall) => Unchanged(last.c)

\* C1, amended: for an element type whose move cannot fail or that can be
\* copied, a failure injected into a relocating Reserve, PushBack, Insert or
\* copy assignment leaves size, capacity and every element value as before.
C1_StrongGuarantee ==
    (Failed /\ RelocatingCall /\ (T.nothrowMove \/ T.copyable)) => Unchanged(last.c)

\* A growing Insert fails while it copies the second existing element.
C1_Witness ==
    /\ Failed /\ RelocatingCall
    /\ last.op = "Insert" /\ last.f = 3
    /\ T.copyable /\ ~T.nothrowMove
    /\ SizeBefore(last.c) = 2
    /\ Unchanged(last.c)

\* The block of a Vector is sized for its capacity, its first size_ slots
\* are constructed and the others are raw.
WellFormed(h, v) ==
    LET b == v.data_.buffer_
        cap == v.data_.capacity_
    IN  /\ 0 <= v.size_ /\ v.size_ <= cap
        /\ (b = 0) <=> (cap = 0)
        /\ b # 0 => /\ Len(h[b]) = cap
                    /\ \A k \in 1 .. cap : (k <= v.size_) <=> (h[b][k] # RAW)

\* C2: at every operation boundary 0 <= size <= capacity, exactly the slots
\* [0, size) hold constructed elements and the slots [size, capacity) are raw.
C2_SizeCapacitySlots == \A c \in alive : WellFormed(heap, vec[c])

\* An Erase has left a container with constructed and with raw slots.
C2_Witness ==
    /\ Returned("Erase")
    /\ SizeNow(last.c) >= 2
    /\ CapacityNow(last.c) > SizeNow(last.c)
    /\ WellFormed(heap, vec[last.c])

\* C3: no call releases a storage block while a constructed element still
\* occupies one of its slots, the calls that fail during growth included.
C3_NoBlockReleasedWithElements == Idle \/ "released_live" \notin last.ev

\* C4: a successful PushBack increases size by exactly 1, keeps every
\* previous element at its index and puts the appended value at index old
\* size, in place and when it grows.
C4_PushBackAppends ==
    Returned("PushBack") =>
        /\ SizeNow(last.c) = SizeBefore(last.c) + 1
        /\ Now(last.c) = Append(Before(last.c), last.v)

\* A PushBack has grown a full container of two elements.
C4_Witness ==
    /\ Returned("PushBack")
    /\ SizeBefore(last.c) = 2 /\ CapacityBefore(last.c) = 2
    /\ Before(last.c) = <<1, 0>>
    /\ Now(last.c) = <<1, 0, last.v>>

Max(x, y) == IF x >= y THEN x ELSE y

\* C5: a successful PushBack or Insert on a full container leaves capacity
\* max(1, 2 * old size); on a container with room it leaves capacity as it was.
C5_GeometricGrowth ==
    (Returned("PushBack") \/ Returned("Insert")) =>
        CapacityNow(last.c) =
            IF SizeBefore(last.c) = CapacityBefore(last.c)
            THEN Max(1, 2 * SizeBefore(last.c))
            ELSE CapacityBefore(last.c)

\* An Insert has grown a full container of two elements to capacity four.
C5_Witness ==
    /\ Returned("Insert")
    /\ SizeBefore(last.c) = 2 /\ CapacityBefore(last.c) = 2
    /\ CapacityNow(last.c) = 4

\* A move of d's contents into another container c has completed.
MovedInto ==
    \/ Returned("Vector(Vector&&)")
    \/ Returned("MoveAssign") /\ last.c # last.d

\* C6 as stated: after a move construction or a move assignment to a target
\* in any state, the source's size is 0.
C6_SourceEmptyAfterAnyMove == MovedInto => SizeNow(last.d) = 0

\* C6, amended: after a move construction the source is as a default
\* constructed container; after a move assignment the source holds what the
\* target held (size 0 exactly when the target's size was 0) and the target
\* what the source held; an append to a container of size 0 gives exactly the
\* appended element and is memory safe.
C6_MoveLeavesSource ==
    /\ Returned("Vector(Vector&&)") =>
          /\ vec[last.d] = EmptyVector
          /\ Now(last.c) = Before(last.d)
    /\ (Returned("MoveAssign") /\ last.c # last.d) =>
          /\ Now(last.d) = Before(last.c)
          /\ CapacityNow(last.d) = CapacityBefore(last.c)
          /\ Now(last.c) = Before(last.d)
          /\ (SizeBefore(last.c) = 0 => SizeNow(last.d) = 0)
    /\ (Returned("PushBack") /\ SizeBefore(last.c) = 0) =>
          /\ Now(last.c) = <<last.v>>
          /\ last.ev = {}

\* A move assignment to an empty target has emptied a source of two elements.
C6_Witness ==
    /\ Returned("MoveAssign") /\ last.c # last.d
    /\ SizeBefore(last.c) = 0 /\ SizeBefore(last.d) = 2
    /\ SizeNow(last.d) = 0 /\ SizeNow(last.c) = 2

\* The calls that mutate the one container they are made on.
Mutators ==
    {"PushBack", "Reserve", "PopBack", "Insert", "Erase", "Insert;Erase",
     "Resize", "Write"}

\* C7: two containers never share a storage block, and a mutating call on
\* one container leaves the other's elements, size and capacity unchanged.
C7_CopyIndependence ==
    /\ (alive = Names /\ vec["a"].data_.buffer_ # 0) =>
          vec["a"].data_.buffer_ # vec["b"].data_.buffer_
    /\ (~Idle /\ last.op \in Mutators) =>
          \A d \in last.pre.alive \ {last.c} : Unchanged(d)

\* A copy of a has been mutated and a is as it was.
C7_Witness ==
    /\ Returned("Write") /\ last.c = "b"
    /\ Before("a") = Before("b") /\ SizeBefore("a") = 2
    /\ Now("b") # Before("b")
    /\ Unchanged("a")

\* The sequence s with x put before its element of index i (from 0).
InsertAt(s, i, x) == SubSeq(s, 1, i) \o <<x>> \o SubSeq(s, i + 1, Len(s))

\* The sequence s without its element of index i (from 0).
RemoveAt(s, i) == SubSeq(s, 1, i) \o SubSeq(s, i + 2, Len(s))

\* C8: a successful Insert of x at index i yields old[0..i) ++ [x] ++
\* old[i..size), size increased by exactly 1, and returns the position of
\* index i in the container's storage, on the end, in-place and regrow paths.
C8_InsertAtPosition ==
    Returned("Insert") =>
        /\ Now(last.c) = InsertAt(Before(last.c), last.i, last.v)
        /\ SizeNow(last.c) = SizeBefore(last.c) + 1
        /\ last.ret = <<vec[last.c].data_.buffer_, last.i>>

\* An Insert into the middle of a full container has regrown it.
C8_Witness ==
    /\ Returned("Insert")
    /\ SizeBefore(last.c) = 2 /\ CapacityBefore(last.c) = 2
    /\ last.i = 1 /\ last.v = 1
    /\ Before(last.c) = <<0, 0>>
    /\ Now(last.c) = <<0, 1, 0>>

\* C9: Erase at index i yields old[0..i) ++ old[i+1..size), size decreased
\* by exactly 1 and capacity unchanged, and returns position i, which holds
\* the element that followed the erased one, or is end() if it was the last.
C9_EraseAtPosition ==
    Returned("Erase") =>
        /\ Now(last.c) = RemoveAt(Before(last.c), last.i)
        /\ SizeNow(last.c) = SizeBefore(last.c) - 1
        /\ CapacityNow(last.c) = CapacityBefore(last.c)
        /\ last.ret = <<vec[last.c].data_.buffer_, last.i>>
        /\ IF last.i = SizeBefore(last.c) - 1
           THEN last.ret[2] = SizeNow(last.c)
           ELSE Now(last.c)[last.ret[2] + 1] = Before(last.c)[last.i + 2]

\* An Erase at the front has shifted two elements.
C9_Witness ==
    /\ Returned("Erase")
    /\ last.i = 0
    /\ Before(last.c) = <<1, 0, 1>>
    /\ Now(last.c) = <<0, 1>>

\* C10: Insert of x at index i followed by Erase at index i restores the
\* element sequence and the size, whether or not the Insert reallocated.
C10_InsertEraseRoundTrip ==
    Returned("Insert;Erase") =>
        /\ Now(last.c) = Before(last.c)
        /\ SizeNow(last.c) = SizeBefore(last.c)

\* A round trip whose Insert reallocated a full container.
C10_Witness ==
    /\ Returned("Insert;Erase")
    /\ SizeBefore(last.c) = 2 /\ CapacityBefore(last.c) = 2
    /\ CapacityNow(last.c) = 4
    /\ last.i = 1
    /\ Before(last.c) = <<0, 1>>
    /\ Now(last.c) = <<0, 1>>

\* C11: Reserve(n) with n <= capacity changes nothing: size, capacity,
\* elements and the storage block are as before and no slot is touched;
\* with n > capacity the capacity becomes exactly n while size and every
\* element value stay as before.
C11_ReserveFrame ==
    Returned("Reserve") =>
        IF last.i <= CapacityBefore(last.c)
        THEN /\ vec[last.c] = last.pre.vec[last.c]
             /\ heap = last.pre.heap
             /\ last.log = <<>>
        ELSE /\ CapacityNow(last.c) = last.i
             /\ SizeNow(last.c) = SizeBefore(last.c)
             /\ Now(last.c) = Before(last.c)

\* A Reserve beyond the capacity has moved two different elements to a
\* larger block.
C11_Witness ==
    /\ Returned("Reserve")
    /\ last.i > CapacityBefore(last.c)
    /\ Before(last.c) = <<1, 0>>
    /\ Now(last.c) = <<1, 0>>
    /\ CapacityNow(last.c) = last.i

\* The number of entries of the log that record operation k on slot i of
\* block b.
Logged(k, b, i) == Cardinality({j \in DOMAIN last.log : last.log[j] = <<k, b, i>>})

\* C12: after a successful Resize(n) the size is n, the first min(old size, n)
\* elements are unchanged, the slots [old size, n) hold the value-initialised
\* T, each slot of [n, old size) has been destroyed exactly once and is raw,
\* and the capacity is max(old capacity, n).
C12_ResizeResult ==
    Returned("Resize") =>
        LET c == last.c
            n == last.i
            old == SizeBefore(c)
        IN  /\ SizeNow(c) = n
            /\ \A k \in 1 .. Min(old, n) : Now(c)[k] = Before(c)[k]
            /\ \A k \in (old + 1) .. n : Now(c)[k] = 0
            /\ \A k \in n .. (old - 1) :
                  /\ Logged("destroy", vec[c].data_.buffer_, k) = 1
                  /\ heap[vec[c].data_.buffer_][k + 1] = RAW
            /\ "destroy_raw" \notin last.ev
            /\ CapacityNow(c) = Max(CapacityBefore(c), n)

\* A Resize beyond the capacity has kept the element and added two
\* value-initialised ones.
C12_Witness ==
    /\ Returned("Resize")
    /\ last.i = 3
    /\ CapacityBefore(last.c) = 1
    /\ Before(last.c) = <<1>>
    /\ Now(last.c) = <<1, 0, 0>>
    /\ CapacityNow(last.c) = 3

\* The log entries that record the destruction of a slot, and those that
\* record the construction of an element in a slot.
Destructions == {last.log[j] : j \in {x \in DOMAIN last.log : last.log[x][1] = "destroy"}}
Constructions ==
    {last.log[j] : j \in {x \in DOMAIN last.log :
                             last.log[x][1] \in {"arg", "copy", "move", "value"}}}

\* C13: after a successful a = b on distinct containers, a's size and
\* elements equal b's and b is unchanged; if b's size exceeded a's capacity,
\* a's capacity is exactly b's size; otherwise a keeps its capacity and its
\* storage block, exactly the slots [b.size, old a.size) have been destroyed
\* (once each) and exactly the slots [old a.size, b.size) have been
\* constructed (once each, by copy).
C13_CopyAssignResult ==
    (Returned("CopyAssign") /\ last.c # last.d) =>
        LET c == last.c
            d == last.d
            b == last.pre.vec[c].data_.buffer_
            osz == SizeBefore(c)
            rsz == SizeBefore(d)
        IN  /\ SizeNow(c) = rsz
            /\ Now(c) = Before(d)
            /\ vec[d] = last.pre.vec[d]
            /\ Now(d) = Before(d)
            /\ IF rsz > CapacityBefore(c)
               THEN CapacityNow(c) = rsz
               ELSE /\ vec[c].data_ = last.pre.vec[c].data_
                    /\ Destructions = {<<"destroy", b, k>> : k \in rsz .. (osz - 1)}
                    /\ Constructions = {<<"copy", b, k>> : k \in osz .. (rsz - 1)}
                    /\ \A e \in Destructions \cup Constructions :
                          Logged(e[1], e[2], e[3]) = 1

\* A copy assignment from a longer container has reused the target's block,
\* assigning one element and constructing another.
C13_Witness ==
    /\ Returned("CopyAssign") /\ last.c # last.d
    /\ Before(last.c) = <<0>>
    /\ CapacityBefore(last.c) = 2
    /\ Before(last.d) = <<1, 1>>
    /\ Now(last.c) = <<1, 1>>
    /\ vec[last.c].data_ = last.pre.vec[last.c].data_
    /\ Constructions = {<<"copy", vec[last.c].data_.buffer_, 1>>}

\* The calls of the model that allocate storage.
AllocatingCalls ==
    {"Vector(size)", "Vector(const Vector&)", "Reserve", "Resize", "PushBack",
     "Insert", "CopyAssign"}

\* C14: when the allocation fails inside a sized or copy construction, a
\* Reserve, a Resize, a growing PushBack or Insert, or a regrowing copy
\* assignment, the call reports the failure and nothing has changed: the
\* target's (and the source's) size, capacity and elements, every storage
\* block and the set of living containers are as before, and no slot has
\* been constructed, assigned or destroyed.
C14_AllocationFailure ==
    (~Idle /\ last.f = -1) =>
        /\ last.op \in AllocatingCalls
        /\ last.outcome = "threw" /\ last.what = "alloc"
        /\ vec = last.pre.vec
        /\ heap = last.pre.heap
        /\ alive = last.pre.alive
        /\ last.log = <<>>

\* The allocation of the larger block has failed in an Insert into a full
\* container of two elements.
C14_Witness ==
    /\ Failed /\ last.what = "alloc"
    /\ last.op = "Insert"
    /\ Before(last.c) = <<0, 1>>
    /\ CapacityBefore(last.c) = 2
    /\ Unchanged(last.c)

\* C15: when the value-construction of an additional element fails during
\* Resize(n) with n > size, the case n > capacity (where Resize has first
\* reserved capacity n) included, size, capacity and every element value
\* are as before the call.
C15_ResizeStrongGuarantee ==
    (Failed /\ last.op = "Resize" /\ last.what = "value") => Unchanged(last.c)

\* C16: when an element-wise assignment or a trailing copy-construction
\* fails partway during a = b with b.size <= a.capacity, a's size, capacity
\* and every element value are as before the call.
C16_CopyAssignInPlaceStrong ==
    (/\ Failed /\ last.op = "CopyAssign" /\ last.c # last.d
     /\ SizeBefore(last.d) <= CapacityBefore(last.c)
     /\ last.what \in {"assign", "copy"}) => Unchanged(last.c)

\* The call in progress took a growth path that places a new element: a
\* PushBack or an Insert on a full container whose allocation succeeded.
GrowthCall ==
    /\ ~Idle
    /\ last.op \in {"PushBack", "Insert"}
    /\ SizeBefore(last.c) = CapacityBefore(last.c)
    /\ last.f # -1

\* C18: on the growth path of PushBack and of Insert the new element is
\* constructed in the new block before any existing element is moved or
\* copied: when its construction fails nothing has been constructed,
\* assigned or destroyed, every block is as before and the old block is
\* still the container's storage; when it succeeds it is the first entry of
\* the log, in the new block at the insertion index.
C18_NewElementFirst ==
    GrowthCall =>
        IF Failed /\ last.what = "arg"
        THEN /\ last.log = <<>>
             /\ heap = last.pre.heap
             /\ vec = last.pre.vec
        ELSE last.log[1] =
                 <<"arg", NewBlock(last.pre.heap),
                   IF last.op = "PushBack" THEN SizeBefore(last.c) ELSE last.i>>

\* The construction of the new element has failed in an Insert into the
\* middle of a full container of two elements.
C18_Witness ==
    /\ GrowthCall /\ Failed /\ last.what = "arg"
    /\ last.op = "Insert" /\ last.i = 1
    /\ Before(last.c) = <<1, 0>>
    /\ Unchanged(last.c)

\* The call in progress relocated (or set out to relocate) the elements into
\* a new block: a Reserve beyond the capacity, or a PushBack or an Insert on
\* a full container, whose allocation succeeded.
RelocationCall ==
    \/ GrowthCall
    \/ ~Idle /\ last.op = "Reserve" /\ last.i > CapacityBefore(last.c) /\ last.f # -1

\* The index at which the element of old index k is found after the call.
IndexAfter(k) ==
    IF last.outcome = "ok" /\ last.op = "Insert" /\ k >= last.i THEN k + 1 ELSE k

\* Relocation moves exactly when the move cannot fail or there is no copy.
StrategyByCapability ==
    \A j \in DOMAIN last.log :
        /\ last.log[j][1] = "move" => (T.nothrowMove \/ ~T.copyable)
        /\ last.log[j][1] = "copy" => ~(T.nothrowMove \/ ~T.copyable)

\* Each element live before the call is held, with its value, by the slot of
\* the container's storage where it belongs, and no block outside the
\* living containers holds anything.
ElementsHeldOnce ==
    /\ WellFormed(heap, vec[last.c])
    /\ \A k \in 0 .. (SizeBefore(last.c) - 1) :
          /\ IndexAfter(k) < SizeNow(last.c)
          /\ Now(last.c)[IndexAfter(k) + 1] = Before(last.c)[k + 1]
    /\ \A x \in BlockIds :
          heap[x] # <<>> => \E d \in alive : vec[d].data_.buffer_ = x

\* No slot is destroyed unless it is live, and none is destroyed twice.
DestroyedLiveOnce ==
    /\ "destroy_raw" \notin last.ev
    /\ \A e \in Destructions : Logged(e[1], e[2], e[3]) = 1

\* C19 as stated: for every element type and every relocation, complete or
\* failed partway, the strategy follows the type's capabilities, each element
\* live before is afterwards held intact by exactly one live slot of the
\* container's storage, and no slot is destroyed raw or twice.
C19_RelocationKeepsAll ==
    RelocationCall =>
        /\ StrategyByCapability
        /\ ElementsHeldOnce
        /\ DestroyedLiveOnce

\* C19, amended: the strategy follows the type's capabilities and no slot is
\* destroyed raw or twice, for every type; each element is held intact when
\* the relocation completes, and when it fails for a type whose move cannot
\* fail or that can be copied.  When it fails for a type with a
\* possibly-failing move and no copy, the container keeps its storage, size
\* and capacity and each slot holds its old value or a moved-from one.
C19_RelocationKeeps ==
    RelocationCall =>
        /\ StrategyByCapability
        /\ DestroyedLiveOnce
        /\ IF ~Failed \/ T.nothrowMove \/ T.copyable
           THEN ElementsHeldOnce
           ELSE /\ vec[last.c] = last.pre.vec[last.c]
                /\ WellFormed(heap, vec[last.c])
                /\ \A k \in 1 .. SizeBefore(last.c) :
                      Now(last.c)[k] \in {Before(last.c)[k], MF}

\* A Reserve has failed while copying the second of two elements, and both
\* are still in place.
C19_Witness ==
    /\ RelocationCall /\ Failed
    /\ last.op = "Reserve" /\ last.what = "copy" /\ last.f = 2
    /\ Before(last.c) = <<1, 0>>
    /\ Now(last.c) = <<1, 0>>
    /\ Destructions = {<<"destroy", NewBlock(last.pre.heap), 0>>}

-----------------------------------------------------------------------------
(* Calls whose argument is a reference to an element of the container      *)
(* itself: v.PushBack(v[j]) and v.Insert(v.begin() + index, v[j]).  They    *)
(* take const T& and copy it, so T is copyable; they are run for normal     *)
(* completion only.                                                         *)

Ref(j) == [kind |-> "ref", j |-> j]

DoPushBackAlias ==
    /\ Idle
    /\ T.copyable
    /\ \E c \in alive : \E j \in 0 .. (vec[c].size_ - 1) :
          Call("PushBack(v[j])", c, c, 0, j, PushBack(Start(0), c, Ref(j)))
    /\ UNCHANGED alive

DoInsertAlias ==
    /\ Idle
    /\ T.copyable
    /\ \E c \in alive : \E index \in 0 .. vec[c].size_ :
          \E j \in 0 .. (vec[c].size_ - 1) :
             Call("Insert(v[j])", c, c, index, j, Insert(Start(0), c, index, Ref(j)))
    /\ UNCHANGED alive

NextAlias == Next \/ DoPushBackAlias \/ DoInsertAlias

SpecAlias == Init /\ [][NextAlias]_vars

\* C20: v.Insert(v.begin() + i, v[j]) and v.PushBack(v[j]), whose argument
\* refers to element j of v itself, insert a copy of the value element j
\* had immediately before the call, for every i in [0, size] and j in
\* [0, size), in place and when the container grows.
C20_AliasedArgument ==
    /\ Returned("PushBack(v[j])") =>
          Now(last.c) = Before(last.c) \o <<Before(last.c)[last.v + 1]>>
    /\ Returned("Insert(v[j])") =>
          Now(last.c) = InsertAt(Before(last.c), last.i, Before(last.c)[last.v + 1])

-----------------------------------------------------------------------------
(* The end-to-end scenario: on an empty Vector the values 1 .. 5 are        *)
(* appended, the element of index 2 is erased and 9 is inserted at index 0. *)
(* A call that fails is made again.                                         *)

Upto(k) == [i \in 1 .. k |-> i]

ScenarioAppend ==
    /\ Idle
    /\ \E k \in 0 .. 4 :
          /\ vec["a"].size_ = k
          /\ Now("a") = Upto(k)
          /\ \E f \in -1 .. (k + 1) :
                Outcome("PushBack", "a", "a", 0, k + 1,
                        PushBack(Start(f), "a", Val(k + 1)))
    /\ UNCHANGED alive

ScenarioErase ==
    /\ Idle
    /\ Now("a") = Upto(5)
    /\ Outcome("Erase", "a", "a", 2, 0, Erase(Start(0), "a", 2))
    /\ UNCHANGED alive

ScenarioInsert ==
    /\ Idle
    /\ Now("a") = <<1, 2, 4, 5>>
    /\ Outcome("Insert", "a", "a", 0, 9, Insert(Start(0), "a", 0, Val(9)))
    /\ UNCHANGED alive

NextScenario == ScenarioAppend \/ ScenarioErase \/ ScenarioInsert \/ Return

SpecScenario == Init /\ [][NextScenario]_vars

\* C17: in the scenario the five appends leave capacities 1, 2, 4, 4, 8 and
\* contents [1 .. size]; the Erase at index 2 leaves [1, 2, 4, 5] with size
\* 4; the Insert of 9 at index 0 leaves [9, 1, 2, 4, 5] with size 5.
C17_Scenario ==
    /\ Returned("PushBack") =>
          /\ SizeNow("a") = SizeBefore("a") + 1
          /\ Now("a") = Upto(SizeNow("a"))
          /\ CapacityNow("a") = <<1, 2, 4, 4, 8>>[SizeNow("a")]
    /\ Returned("Erase") =>
          /\ Now("a") = <<1, 2, 4, 5>>
          /\ SizeNow("a") = 4
    /\ Returned("Insert") =>
          /\ Now("a") = <<9, 1, 2, 4, 5>>
          /\ SizeNow("a") = 5

\* The scenario has run to its end: after five appends (the fifth grew the
\* capacity from 4 to 8) and the Erase, the Insert has returned.
C17_Witness ==
    /\ Returned("Insert")
    /\ Before("a") = <<1, 2, 4, 5>>
    /\ Now("a") = <<9, 1, 2, 4, 5>>
    /\ CapacityNow("a") = 8

====
